---- MODULE Spec2Model ----
(***************************************************************************)
(* Model of lm_eval/tasks/cnn_dailymail.py: the CNN_DailyMail task and its *)
(* CNN_DailyMail_Short variant.                                            *)
(*                                                                         *)
(* A Python str is a sequence of one-character strings.  The two literal   *)
(* phrases of the prompt template are kept as single atoms of a text.      *)
(* An optional value (None or a value) is <<>> or <<value>>.               *)
(***************************************************************************)
EXTENDS Integers, Sequences, FiniteSets, TLC

VARIABLES
    config,       \* the class attributes PRUNE_TOKENIZERS, PRUNE_MAX_TOKENS, PRUNE_NUM_PROC
    phase,        \* "constructed", "filtering", "ready", "error"
    pruneCalled,  \* whether download() called self.prune()
    loaded,       \* the DatasetDict that super().download() loaded
    dataset,      \* self.dataset
    cur,          \* number of the split dataset.filter is working on (0: none yet)
    todo,         \* per worker process, the indices of its shard still to filter
    cache,        \* per worker process, its copy of the closure's cache dict
    log,          \* the _filter calls made so far, in the order they were made
    gen,          \* the running *_docs generator: split, position, status
    yielded,      \* the document the generator yielded last, <<>> if none
    scored        \* the (ref, pred) pairs rouge() handed to the scorer

vars == <<config, phase, pruneCalled, loaded, dataset, cur, todo, cache, log,
          gen, yielded, scored>>

(***************************************************************************)
(* Bounds of the model.                                                    *)
(***************************************************************************)
MaxLen == 4
MaxDocs == 2

None == <<>>
Some(x) == <<x>>

Chars == {"A", ".", " ", "\n"}
Whitespace == {" ", "\t", "\n", "\r", "\f"}

StringsUpTo(n) == UNION {[1..k -> Chars] : k \in 0..n}

Last(s) == s[Len(s)]

(***************************************************************************)
(* str.strip(): drops the leading and the trailing whitespace.             *)
(***************************************************************************)
RECURSIVE LStrip(_)
LStrip(s) ==
    IF s # <<>> /\ Head(s) \in Whitespace THEN LStrip(Tail(s)) ELSE s

RECURSIVE RStrip(_)
RStrip(s) ==
    IF s # <<>> /\ Last(s) \in Whitespace
    THEN RStrip(SubSeq(s, 1, Len(s) - 1))
    ELSE s

Strip(s) == RStrip(LStrip(s))

(***************************************************************************)
(* str.replace(old, new) for a non-empty old: left to right, every         *)
(* non-overlapping occurrence.                                             *)
(***************************************************************************)
RECURSIVE Replace(_, _, _)
Replace(s, old, new) ==
    IF Len(s) < Len(old) THEN s
    ELSE IF SubSeq(s, 1, Len(old)) = old
         THEN new \o Replace(SubSeq(s, Len(old) + 1, Len(s)), old, new)
         ELSE <<Head(s)>> \o Replace(Tail(s), old, new)

SplitNames == <<"train", "validation", "test">>


(***************************************************************************)
(* Documents and the prompt.                                               *)
(***************************************************************************)
Doc(a, h) == [article |-> a, highlights |-> h]

\* _process_doc strips both fields and returns the document in a list.
_process_doc(doc) ==
    <<[article |-> Strip(doc.article), highlights |-> Strip(doc.highlights)]>>

QuestionSuffix ==
    <<"\n", "\n", "Question: What is a summary of the preceding text?",
      "\n", "Answer:">>

doc_to_text(doc) == doc.article \o QuestionSuffix

doc_to_target(doc) == <<" ">> \o doc.highlights

\* Faulty variant: the highlights is not stripped before its last character is read.
AnswerUnstripped(highlights) == highlights

\* answer = doc["highlights"].strip()
Answer(highlights) == Strip(highlights)

\* answer[-1] of an empty str raises IndexError.
RaisesIndexError(answer) == answer = <<>>

\* The body of the loop of training_docs, validation_docs and test_docs for
\* one document, when answer[-1] does not raise.
NormalizedDoc(doc) ==
    LET answer == Answer(doc.highlights)
        period == IF Last(answer) # "." THEN answer \o <<".">> ELSE answer
    IN  _process_doc([doc EXCEPT !.highlights = period])[1]

(***************************************************************************)
(* rouge(): the transform applied to each reference and prediction.        *)
(***************************************************************************)
\* str.replace(old, new, 1): the first occurrence only.
ReplaceFirst(s, old, new) ==
    IF \E i \in 1..(Len(s) - Len(old) + 1) : SubSeq(s, i, i + Len(old) - 1) = old
    THEN LET i == CHOOSE i \in 1..(Len(s) - Len(old) + 1) :
                      /\ SubSeq(s, i, i + Len(old) - 1) = old
                      /\ \A j \in 1..(i - 1) : SubSeq(s, j, j + Len(old) - 1) # old
         IN  SubSeq(s, 1, i - 1) \o new \o SubSeq(s, i + Len(old), Len(s))
    ELSE s

\* Faulty variant: only the first " . " is replaced.
_prepare_summary_first_only(summary) ==
    ReplaceFirst(summary, <<" ", ".", " ">>, <<".", "\n">>)

\* summary.replace(" . ", ".\n")
_prepare_summary(summary) == Replace(summary, <<" ", ".", " ">>, <<".", "\n">>)

(***************************************************************************)
(* Tokenizers.  AutoTokenizer.from_pretrained(id) raises for an identifier *)
(* that is not available; a constructed tokenizer maps a text to a number  *)
(* of input ids.  "char" gives one id per atom of the text, "word" a       *)
(* begin-of-sequence id and one id per whitespace-separated word.          *)
(***************************************************************************)
TokenizerIds == {"char", "word", "missing"}

Available(id) == id # "missing"

RECURSIVE Words(_, _)
Words(text, inWord) ==
    IF text = <<>> THEN 0
    ELSE IF Head(text) \in Whitespace THEN Words(Tail(text), FALSE)
         ELSE (IF inWord THEN 0 ELSE 1) + Words(Tail(text), TRUE)

TokenCount(id, text) ==
    IF id = "char" THEN Len(text) ELSE 1 + Words(text, FALSE)


(***************************************************************************)
(* The task variants and the datasets the model draws from.                *)
(***************************************************************************)
TokenizerLists ==
    {<<>>, <<"char">>, <<"word">>, <<"char", "word">>, <<"word", "char">>,
     <<"word", "missing">>}

Configs ==
    [PRUNE_TOKENIZERS : {None} \cup {Some(l) : l \in TokenizerLists},
     PRUNE_MAX_TOKENS : {None, Some(4), Some(6)},
     PRUNE_NUM_PROC   : {None, Some(1), Some(2)}]

\* class CNN_DailyMail
BaseConfig ==
    [PRUNE_TOKENIZERS |-> None, PRUNE_MAX_TOKENS |-> None, PRUNE_NUM_PROC |-> None]

\* The workers of a pool; process 0 is the process that called prune().
Workers == {1, 2}

Processes == {0} \cup Workers

Articles == {<<"A">>, <<" ", "A">>, <<"A", " ", "A">>}

SeqsUpTo(S, n) == UNION {[1..k -> S] : k \in 0..n}

TotalDocs(ds) == Len(ds["train"]) + Len(ds["validation"]) + Len(ds["test"])

SplitSet == {SplitNames[i] : i \in 1..Len(SplitNames)}

\* DatasetDicts of at most MaxDocs documents in all.
DatasetDicts(docs) ==
    {ds \in [SplitSet -> SeqsUpTo(docs, MaxDocs)] : TotalDocs(ds) <= MaxDocs}

PruneDatasets ==
    DatasetDicts({Doc(a, h) : a \in Articles, h \in {<<"A">>}})

\* One document, of any highlights, in one split.
NormDatasets ==
    {[s \in SplitSet |-> IF s = t THEN <<Doc(a, h)>> ELSE <<>>] :
        t \in SplitSet, a \in {<<"A">>, <<" ", "A">>}, h \in StringsUpTo(MaxLen)}

NoDataset == [s \in SplitSet |-> <<>>]

(***************************************************************************)
(* download() and prune().                                                 *)
(***************************************************************************)
\* The condition of line 197, which names PRUNE_TOKENIZERS twice.
PruneCondition(c) ==
    c.PRUNE_TOKENIZERS # None /\ c.PRUNE_TOKENIZERS # None

\* Faulty variant: unavailable tokenizers are skipped instead of raising.
LoadTokenizersSkipMissing(ids) ==
    [raised |-> FALSE, tokenizers |-> SelectSeq(ids, Available)]

\* tokenizers = [AutoTokenizer.from_pretrained(t) for t in self.PRUNE_TOKENIZERS]
LoadTokenizers(ids) ==
    IF \E i \in 1..Len(ids) : ~Available(ids[i])
    THEN [raised |-> TRUE, tokenizers |-> <<>>]
    ELSE [raised |-> FALSE, tokenizers |-> ids]

\* Faulty variant: the prompt of the sample as loaded, not passed through _process_doc.
_get_prune_text_unprocessed(sample) == doc_to_text(sample)

_get_prune_text(sample) == doc_to_text(_process_doc(sample)[1])

\* cache.get(text, None)
CacheGet(c, text) == IF text \in DOMAIN c THEN Some(c[text]) ELSE None

\* Faulty variant: the cache records "keep" whatever the verdict.
CachePutTrue(c, text, verdict) ==
    [t \in DOMAIN c \cup {text} |-> IF t = text THEN TRUE ELSE c[t]]

\* cache[text] = verdict
CachePut(c, text, verdict) ==
    [t \in DOMAIN c \cup {text} |-> IF t = text THEN verdict ELSE c[t]]

\* Faulty variant: `if not cached`.
IsMissFalsy(cached) == cached = None \/ cached = Some(FALSE)

\* if cached is None
IsMiss(cached) == cached = None

\* Faulty variant: a prompt of exactly the budget is rejected.
ExceedsOrEquals(n, maxTokens) == n >= maxTokens

\* len(tokenizer(text).input_ids) > self.PRUNE_MAX_TOKENS
Exceeds(n, maxTokens) == n > maxTokens

\* The loop over the tokenizers on a cache miss: the verdict, the number of
\* tokenizer calls made, and whether the comparison raised (an int compared
\* with a PRUNE_MAX_TOKENS of None is a TypeError).
RECURSIVE TokenizerLoop(_, _, _)
TokenizerLoop(tokenizers, text, maxTokens) ==
    IF tokenizers = <<>> THEN [raised |-> FALSE, result |-> TRUE, calls |-> 0]
    ELSE IF maxTokens = None THEN [raised |-> TRUE, result |-> FALSE, calls |-> 1]
    ELSE IF Exceeds(TokenCount(Head(tokenizers), text), maxTokens[1])
         THEN [raised |-> FALSE, result |-> FALSE, calls |-> 1]
         ELSE LET rest == TokenizerLoop(Tail(tokenizers), text, maxTokens)
              IN  [rest EXCEPT !.calls = @ + 1]

\* _filter(sample) run against the cache c: what it returns and the cache after.
_filter(sample, c, tokenizers, maxTokens) ==
    LET text == _get_prune_text(sample)
        cached == CacheGet(c, text)
    IN  IF IsMiss(cached)
        THEN LET r == TokenizerLoop(tokenizers, text, maxTokens)
             IN  [text |-> text, hit |-> FALSE, raised |-> r.raised,
                  result |-> r.result, calls |-> r.calls,
                  cache |-> IF r.raised THEN c ELSE CachePut(c, text, r.result)]
        ELSE [text |-> text, hit |-> TRUE, raised |-> FALSE,
              result |-> cached[1], calls |-> 0, cache |-> c]

EmptyCache == [t \in {} |-> FALSE]

Tokenizers == LoadTokenizers(config.PRUNE_TOKENIZERS[1]).tokenizers

\* num_proc as dataset.filter uses it for a split of n samples: no more
\* processes than samples, and the calling process alone unless 2 or more.
NumProc(n) ==
    IF config.PRUNE_NUM_PROC = None THEN 1
    ELSE IF config.PRUNE_NUM_PROC[1] > n THEN n ELSE config.PRUNE_NUM_PROC[1]

\* The ways of cutting n samples into k contiguous, non-empty shards.
Shardings(n, k) ==
    {f \in [1..n -> 1..k] :
        /\ \A i, j \in 1..n : i < j => f[i] <= f[j]
        /\ \A w \in 1..k : \E i \in 1..n : f[i] = w}

RECURSIVE Range(_, _)
Range(i, n) == IF i > n THEN <<>> ELSE <<i>> \o Range(i + 1, n)

RECURSIVE IndicesOf(_, _, _)
IndicesOf(f, w, i) ==
    IF i > Len(f) THEN <<>>
    ELSE (IF f[i] = w THEN <<i>> ELSE <<>>) \o IndicesOf(f, w, i + 1)

\* The calling process <<0, 0>>, or worker w of the pool started for the
\* current split.
Process(w) == IF w = 0 THEN <<0, 0>> ELSE <<cur, w>>

Idle == \A w \in Processes : todo[w] = <<>>

\* The samples of a split that _filter kept, in order.
RECURSIVE KeptOf(_, _, _)
KeptOf(split, samples, i) ==
    IF i > Len(samples) THEN <<>>
    ELSE (IF \E k \in 1..Len(log) :
                log[k].split = split /\ log[k].index = i /\ log[k].result
          THEN <<samples[i]>> ELSE <<>>) \o KeptOf(split, samples, i + 1)

IdleGen == [split |-> "none", pos |-> 0, status |-> "idle"]

Init ==
    /\ config \in Configs
    /\ phase = "constructed"
    /\ pruneCalled = FALSE
    /\ loaded = NoDataset
    /\ dataset = NoDataset
    /\ cur = 0
    /\ todo = [w \in Processes |-> <<>>]
    /\ cache = [w \in Processes |-> EmptyCache]
    /\ log = <<>>
    /\ gen = IdleGen
    /\ yielded = <<>>
    /\ scored = <<>>

\* download(): super().download() loads the dataset; under the condition of
\* line 197 prune() is called, which first constructs the tokenizers.
Download(datasets) ==
    /\ phase = "constructed"
    /\ \E ds \in datasets :
        /\ loaded' = ds
        /\ dataset' = ds
    /\ pruneCalled' = PruneCondition(config)
    /\ phase' = IF ~PruneCondition(config) THEN "ready"
                ELSE IF LoadTokenizers(config.PRUNE_TOKENIZERS[1]).raised
                     THEN "error"
                     ELSE "filtering"
    /\ UNCHANGED <<config, cur, todo, cache, log, gen, yielded, scored>>

download == Download(PruneDatasets)

\* self.dataset.filter(_filter, num_proc=...) turns to the next split.  The
\* calling process filters it itself, with the closure's cache, or its
\* samples are cut into shards for the workers of a pool, each of which
\* starts from its own copy of the closure and so of the cache.
filter_split ==
    /\ phase = "filtering"
    /\ Idle
    /\ cur < Len(SplitNames)
    /\ cur' = cur + 1
    /\ LET n == Len(loaded[SplitNames[cur + 1]])
       IN  IF NumProc(n) <= 1
           THEN /\ todo' = [w \in Processes |-> IF w = 0 THEN Range(1, n) ELSE <<>>]
                /\ cache' = cache
           ELSE /\ \E f \in Shardings(n, NumProc(n)) :
                    todo' = [w \in Processes |-> IndicesOf(f, w, 1)]
                /\ cache' = [w \in Processes |-> cache[0]]
    /\ UNCHANGED <<config, phase, pruneCalled, loaded, dataset, log, gen,
                   yielded, scored>>

\* A worker calls _filter on the next sample of its shard.
filter_sample(w) ==
    /\ phase = "filtering"
    /\ todo[w] # <<>>
    /\ LET i == Head(todo[w])
           split == SplitNames[cur]
           r == _filter(loaded[split][i], cache[w], Tokenizers,
                        config.PRUNE_MAX_TOKENS)
       IN  /\ log' = Append(log, [split |-> split, index |-> i,
                                  process |-> Process(w), text |-> r.text,
                                  hit |-> r.hit, raised |-> r.raised,
                                  result |-> r.result, calls |-> r.calls])
           /\ cache' = [cache EXCEPT ![w] = r.cache]
           /\ todo' = [todo EXCEPT ![w] = Tail(@)]
           /\ phase' = IF r.raised THEN "error" ELSE "filtering"
    /\ UNCHANGED <<config, pruneCalled, loaded, dataset, cur, gen, yielded, scored>>

\* A tokenizer call raises: the error ends the pass.
tokenizer_raises(w) ==
    /\ phase = "filtering"
    /\ todo[w] # <<>>
    /\ Tokenizers # <<>>
    /\ LET i == Head(todo[w])
           split == SplitNames[cur]
           text == _get_prune_text(loaded[split][i])
       IN  /\ IsMiss(CacheGet(cache[w], text))
           /\ log' = Append(log, [split |-> split, index |-> i,
                                  process |-> Process(w), text |-> text,
                                  hit |-> FALSE, raised |-> TRUE,
                                  result |-> FALSE, calls |-> 1])
    /\ phase' = "error"
    /\ UNCHANGED <<config, pruneCalled, loaded, dataset, cur, todo, cache, gen,
                   yielded, scored>>

\* The filter has returned for every split: self.dataset = <the filtered dataset>.
prune_done ==
    /\ phase = "filtering"
    /\ Idle
    /\ cur = Len(SplitNames)
    /\ dataset' = [s \in SplitSet |-> KeptOf(s, loaded[s], 1)]
    /\ phase' = "ready"
    /\ UNCHANGED <<config, pruneCalled, loaded, cur, todo, cache, log, gen,
                   yielded, scored>>


(***************************************************************************)
(* training_docs, validation_docs, test_docs: one step of the generator    *)
(* over a split.  One generator runs in a behaviour.                       *)
(***************************************************************************)
DocsStep(split) ==
    /\ phase = "ready"
    /\ \/ gen.status = "idle"
       \/ gen.status = "running" /\ gen.split = split
    /\ IF gen.pos = Len(dataset[split])
       THEN /\ gen' = [split |-> split, pos |-> gen.pos, status |-> "exhausted"]
            /\ yielded' = <<>>
       ELSE LET doc == dataset[split][gen.pos + 1]
            IN  IF RaisesIndexError(Answer(doc.highlights))
                THEN /\ gen' = [split |-> split, pos |-> gen.pos + 1,
                                status |-> "raised"]
                     /\ yielded' = <<>>
                ELSE /\ gen' = [split |-> split, pos |-> gen.pos + 1,
                                status |-> "running"]
                     /\ yielded' = <<NormalizedDoc(doc)>>
    /\ UNCHANGED <<config, phase, pruneCalled, loaded, dataset, cur, todo, cache,
                   log, scored>>

training_docs == DocsStep("train")

validation_docs == DocsStep("validation")

test_docs == DocsStep("test")

(***************************************************************************)
(* rouge(refs, preds) on one reference and one prediction: the pair the    *)
(* scorer is given.  One call is made in a behaviour.                      *)
(***************************************************************************)
ExampleSummary == <<"A", " ", ".", " ", "B", " ", ".">>

References == StringsUpTo(MaxLen) \cup {ExampleSummary}

Predictions == {<<"A">>, <<"A", " ", ".", " ", "A", " ", ".", " ">>}

rouge ==
    /\ phase = "ready"
    /\ scored = <<>>
    /\ \E ref \in References, pred \in Predictions :
        scored' = <<[ref |-> ref, pred |-> pred,
                     scoredRef |-> _prepare_summary(ref),
                     scoredPred |-> _prepare_summary(pred)]>>
    /\ UNCHANGED <<config, phase, pruneCalled, loaded, dataset, cur, todo, cache,
                   log, gen, yielded>>

(***************************************************************************)
(* Specifications.                                                         *)
(***************************************************************************)
Next ==
    \/ download
    \/ filter_split
    \/ \E w \in Processes : filter_sample(w)
    \/ \E w \in Processes : tokenizer_raises(w)
    \/ prune_done
    \/ training_docs
    \/ validation_docs
    \/ test_docs

\* Every task variant, over the small datasets.
Spec == Init /\ [][Next]_vars

InitBase ==
    /\ Init
    /\ config = BaseConfig

download_base == Download(NormDatasets)

NextDocs ==
    \/ download_base
    \/ training_docs
    \/ validation_docs
    \/ test_docs

\* The base task over one document of any highlights.
SpecDocs == InitBase /\ [][NextDocs]_vars

SampleDatasets ==
    {[s \in SplitSet |-> <<Doc(<<"A">>, <<"A", " ", ".", " ", "A">>)>>]}

download_sample == Download(SampleDatasets)

NextRouge ==
    \/ download_sample
    \/ rouge

\* The base task scoring one pair.
SpecRouge == InitBase /\ [][NextRouge]_vars


(***************************************************************************)
(* Properties.                                                             *)
(***************************************************************************)
LogIndices == 1..Len(log)

BothSet ==
    config.PRUNE_TOKENIZERS # None /\ config.PRUNE_MAX_TOKENS # None

\* The text tokenizes to at most PRUNE_MAX_TOKENS under every configured tokenizer.
WithinBudget(text) ==
    \A i \in 1..Len(config.PRUNE_TOKENIZERS[1]) :
        TokenCount(config.PRUNE_TOKENIZERS[1][i], text) <= config.PRUNE_MAX_TOKENS[1]

WithinBudgetDocs(samples) ==
    LET Keep(sample) == WithinBudget(doc_to_text(_process_doc(sample)[1]))
    IN  SelectSeq(samples, Keep)

Recomputed(text) == TokenizerLoop(Tokenizers, text, config.PRUNE_MAX_TOKENS)

\* C2: every entry of every prune cache maps its text to the verdict the
\* filter recomputed without a cache gives, and so does every verdict
\* _filter returned.
C2_CacheAgreesWithRecomputing ==
    pruneCalled =>
        /\ \A w \in Processes : \A t \in DOMAIN cache[w] :
            /\ ~Recomputed(t).raised
            /\ cache[w][t] = Recomputed(t).result
        /\ \A k \in LogIndices :
            ~log[k].raised =>
                /\ ~Recomputed(log[k].text).raised
                /\ log[k].result = Recomputed(log[k].text).result

\* A verdict served from a cache that holds a "reject".
C2_Witness ==
    /\ \E k \in LogIndices : log[k].hit /\ ~log[k].result
    /\ \E w \in Processes : \E t \in DOMAIN cache[w] : ~cache[w][t]

\* C3 as claimed: of two documents of one pass with the same prompt text,
\* filtering the later one makes no tokenizer call.
C3_SecondIdenticalPromptMakesNoCall ==
    \A i, j \in LogIndices :
        (i < j /\ log[i].text = log[j].text) => log[j].calls = 0

\* C3: of two documents with the same prompt text filtered by the same
\* process, filtering the later one makes no tokenizer call and returns the
\* verdict of the first.
C3_SameProcessSecondMakesNoCall ==
    \A i, j \in LogIndices :
        (i < j /\ log[i].text = log[j].text /\ log[i].process = log[j].process) =>
            /\ log[j].calls = 0
            /\ log[j].result = log[i].result

\* A rejected prompt that the same process met again, after filtering
\* another document in between or not.
C3_Witness ==
    \E i, j \in LogIndices :
        /\ i < j
        /\ log[i].text = log[j].text
        /\ log[i].process = log[j].process
        /\ log[i].calls > 0
        /\ ~log[i].result

\* C4 as claimed: unless both PRUNE_TOKENIZERS and PRUNE_MAX_TOKENS are set,
\* download() does not call prune() and leaves the loaded dataset as it is.
C4_PruneOnlyWhenBothSet ==
    ~BothSet =>
        /\ ~pruneCalled
        /\ phase \in {"constructed", "ready"}
        /\ dataset = loaded

\* The sample the generator read last.
RawDoc == dataset[gen.split][gen.pos]

EndsInDot(s) == s # <<>> /\ Last(s) = "."

EndsInOneDot(s) ==
    /\ EndsInDot(s)
    /\ Len(s) >= 2 => s[Len(s) - 1] # "."

NoSpaceBeforeLast(s) == Len(s) >= 2 => s[Len(s) - 1] \notin Whitespace

\* C5 as claimed: when the raw highlights does not end in ".", the yielded
\* highlights ends in exactly one "." with no whitespace before it.
C5_RawNotEndingInDot ==
    (yielded # <<>> /\ ~EndsInDot(RawDoc.highlights)) =>
        /\ EndsInOneDot(yielded[1].highlights)
        /\ NoSpaceBeforeLast(yielded[1].highlights)

\* C5: when the highlights with its surrounding whitespace stripped does
\* not end in ".", the yielded highlights ends in exactly one "." with no
\* whitespace before it.
C5_StrippedNotEndingInDot ==
    (yielded # <<>> /\ ~EndsInDot(Strip(RawDoc.highlights))) =>
        /\ EndsInOneDot(yielded[1].highlights)
        /\ NoSpaceBeforeLast(yielded[1].highlights)

\* A yielded document whose raw highlights ended in whitespace and got its
\* period appended.
C5_Witness ==
    /\ yielded # <<>>
    /\ RawDoc.highlights # <<>>
    /\ Last(RawDoc.highlights) \in Whitespace
    /\ ~EndsInDot(Strip(RawDoc.highlights))
    /\ EndsInOneDot(yielded[1].highlights)

\* C6 as claimed: the generators never raise, and every yielded highlights
\* is non-empty and ends with a period.
C6_NeverRaisesAndEndsWithPeriod ==
    /\ gen.status # "raised"
    /\ yielded # <<>> => EndsInDot(yielded[1].highlights)

Occurs(s, pat) ==
    \E i \in 1..(Len(s) - Len(pat) + 1) : SubSeq(s, i, i + Len(pat) - 1) = pat

Count(s, c) == Cardinality({i \in 1..Len(s) : s[i] = c})

Letters(s) ==
    LET IsLetter(c) == c \notin {" ", "\n"}
    IN  SelectSeq(s, IsLetter)

\* What the transform may do to a string: nothing when " . " does not occur;
\* otherwise each replacement turns two spaces into one newline, leaves
\* every other character in place, and no " . " is left.
OnlyReplaced(in, out) ==
    /\ ~Occurs(in, <<" ", ".", " ">>) => out = in
    /\ ~Occurs(out, <<" ", ".", " ">>)
    /\ Letters(out) = Letters(in)
    /\ LET n == Count(out, "\n") - Count(in, "\n")
       IN  /\ n >= 0
           /\ Occurs(in, <<" ", ".", " ">>) => n >= 1
           /\ Count(in, " ") - Count(out, " ") = 2 * n
           /\ Len(in) - Len(out) = n

\* C7 as claimed: only " . " is replaced, by ".\n", and "A . B ." is scored
\* as "A.\nB.".
C7_ExampleBecomesTwoSentences ==
    scored # <<>> =>
        /\ OnlyReplaced(scored[1].ref, scored[1].scoredRef)
        /\ OnlyReplaced(scored[1].pred, scored[1].scoredPred)
        /\ scored[1].ref = ExampleSummary =>
            scored[1].scoredRef = <<"A", ".", "\n", "B", ".">>

\* C7: only " . " is replaced, by ".\n", and "A . B ." is scored as
\* "A.\nB ." (its last " ." is followed by no space and stays).
C7_OnlyLiteralReplaced ==
    scored # <<>> =>
        /\ OnlyReplaced(scored[1].ref, scored[1].scoredRef)
        /\ OnlyReplaced(scored[1].pred, scored[1].scoredPred)
        /\ scored[1].ref = ExampleSummary =>
            scored[1].scoredRef = <<"A", ".", "\n", "B", " ", ".">>

\* The example scored, with a prediction holding " . " twice.
C7_Witness ==
    /\ scored # <<>>
    /\ scored[1].ref = ExampleSummary
    /\ scored[1].pred # scored[1].scoredPred
    /\ Count(scored[1].scoredPred, "\n") = 2

\* The samples one process keeps when it filters them in order with one
\* cache, and the cache after.
RECURSIVE SingleProcessFilter(_, _, _)
SingleProcessFilter(samples, c, i) ==
    IF i > Len(samples) THEN [kept |-> <<>>, cache |-> c]
    ELSE LET r == _filter(samples[i], c, Tokenizers, config.PRUNE_MAX_TOKENS)
             rest == SingleProcessFilter(samples, r.cache, i + 1)
         IN  [kept |-> (IF r.result THEN <<samples[i]>> ELSE <<>>) \o rest.kept,
              cache |-> rest.cache]

\* The dataset a single-process pass over the loaded dataset leaves.
SingleProcessResult ==
    LET train == SingleProcessFilter(loaded["train"], EmptyCache, 1)
        validation == SingleProcessFilter(loaded["validation"], train.cache, 1)
        test == SingleProcessFilter(loaded["test"], validation.cache, 1)
    IN  [s \in SplitSet |->
            IF s = "train" THEN train.kept
            ELSE IF s = "validation" THEN validation.kept ELSE test.kept]

\* C8: however the samples are cut into shards and the workers interleave,
\* a finished pass leaves the dataset a single-process pass leaves.
C8_SameAsSingleProcess ==
    (phase = "ready" /\ pruneCalled) => dataset = SingleProcessResult

\* A finished pass in which two processes each filtered the same rejected
\* prompt.
C8_Witness ==
    /\ phase = "ready" /\ pruneCalled
    /\ \E i, j \in LogIndices :
        /\ log[i].process # log[j].process
        /\ log[i].text = log[j].text
        /\ ~log[i].result

Unavailable ==
    \E i \in 1..Len(config.PRUNE_TOKENIZERS[1]) :
        ~Available(config.PRUNE_TOKENIZERS[1][i])

\* C9: once prune() is called with a tokenizer that cannot be constructed,
\* no sample is filtered and the pass ends in an error; a tokenizer call
\* that raises ends it in an error; and after an error the dataset is the
\* loaded one.
C9_ErrorLeavesDatasetUnfiltered ==
    /\ (pruneCalled /\ Unavailable) => (phase = "error" /\ log = <<>>)
    /\ (\E k \in LogIndices : log[k].raised) => phase = "error"
    /\ phase = "error" => dataset = loaded

\* A pass that had rejected a sample when a later tokenizer call raised.
C9_Witness ==
    /\ phase = "error"
    /\ \E i, j \in LogIndices : i < j /\ ~log[i].raised /\ ~log[i].result /\ log[j].raised

\* C10: the text _filter decided on for a sample is doc_to_text of the
\* document the generators yield for it, and a yielded document of a pruned
\* dataset was kept on that text.
C10_PruneTextIsPromptOfYieldedDoc ==
    yielded # <<>> =>
        /\ \A k \in LogIndices :
            (log[k].split = gen.split /\ loaded[gen.split][log[k].index] = RawDoc) =>
                log[k].text = doc_to_text(yielded[1])
        /\ pruneCalled =>
            \E k \in LogIndices :
                /\ log[k].split = gen.split
                /\ loaded[gen.split][log[k].index] = RawDoc
                /\ log[k].result

\* A document yielded from a pruned dataset whose raw article had
\* surrounding whitespace.
C10_Witness ==
    /\ yielded # <<>>
    /\ pruneCalled
    /\ Tokenizers # <<>>
    /\ RawDoc.article # yielded[1].article

====
